---- MODULE Spec2Model ----
(***************************************************************************)
(* A model of gitm (AlexDouze/git-manager): the repository operations of   *)
(* pkg/git/repository.go (Status, Update, PruneBranches, GetDefaultBranch) *)
(* driven through the git command executor, and the prune, update and      *)
(* status commands of cmd/ that fan these operations out over the          *)
(* discovered repositories.                                                *)
(*                                                                         *)
(* The git executor is the environment: every command it runs may fail,    *)
(* and the working tree it acts on is the state `branches`, `head`,        *)
(* `dirty`.                                                                *)
(***************************************************************************)
EXTENDS Integers, Sequences, FiniteSets, TLC

VARIABLES
    branches,       \* the local branches of the working tree: name -> branch state
    head,           \* the checked-out branch
    dirty,          \* the working tree has uncommitted changes
    goneOnly,       \* PruneBranches argument (the --gone-only variable of cmd/prune.go)
    mergedOnly,     \* PruneBranches argument (the --merged-only variable)
    dryRun,         \* PruneBranches argument of the running call (the dryRun variable)
    prunePc,        \* position of the running PruneBranches call
    defaultBranch,  \* what GetDefaultBranch returned to the running call
    branchesToPrune,\* the list identifyBranchesToPrune returned
    pruneIdx,       \* index of the deletion loop
    call,           \* the running (or last) PruneBranches call: arguments, commands, return
    preview,        \* the dry-run call that directly preceded it, if any
    fetchOnly,      \* Update argument
    pruneArg,       \* Update argument (prune)
    updPc,          \* position of the running Update call
    originalBranch, \* Update: the branch GetCurrentBranch returned
    updLines,       \* Update: the lines of its own `git branch -vv`
    updIdx,         \* Update: index of the branch loop
    results,        \* Update: BranchUpdateResults, branch name -> error ("nil" is no error)
    hasError,       \* Update: hasError
    updRet,         \* what Update returned
    gitLog,         \* the git commands Update has issued, oldest first
    headAtStart,    \* the branch that was checked out when Update was called
    argv,           \* prune command: the dry-run flags given on the command line, in order
    pcmdPc,         \* prune command: position of RunE / pruneRepositories
    pruneResult,    \* prune command: the PruneResult stored for the repository
    variant,        \* which RunE runs: "update", or the status command "wg" or "chan"
    flagFetchOnly,  \* update command: the --fetch-only variable
    displayAll,     \* status command: the --display-all variable
    workerPc,       \* per repository, the position of its goroutine
    updateArgs,     \* per repository, the arguments its goroutine passed to Update
    resultChan,     \* the buffered result channel: the results sent and not yet received
    chanClosed,     \* the result channel is closed
    wgCount,        \* the WaitGroup counter
    mainPc,         \* position of RunE; "panic" is the process brought down by a panic
    collected,      \* the results map of RunE: the repository paths that have an entry
    received,       \* the paths in the order their results were received
    renderIdx,      \* index of the rendering loop
    rendered,       \* the repositories rendered, in the order of the calls
    warnings,       \* the repositories a warning was printed for
    outLines,       \* Status: the lines of the `git branch -vv` output
    linePc,         \* Status: per line, the position of its parsing goroutine
    status,         \* Status: the RepositoryStatus being filled
    statPc,         \* Status: position of Status / getBranchInformation
    parentDir,      \* file system: the directory each directory below the root is in
    gitDirs,        \* file system: the directories that hold a .git directory
    findPath,       \* FindRepositories: the path argument, -1 for ""
    filters,        \* FindRepositories / FilterRepositories: host, org and repo
    walkQueue,      \* FindRepositories: the directories filepath.Walk has yet to visit
    foundRepos,     \* FindRepositories: the list being built; FilterRepositories: its input
    findRet,        \* the list FindRepositories or FilterRepositories returned
    findPc,         \* position of FindRepositories / FilterRepositories
    cloneUrl,       \* clone: the URL given, as its parts and as its text
    cloneRoot,      \* clone: the root directory
    cloneRepo,      \* clone: the Repository ParseURL returned
    clonePc,        \* clone: position, and the error of a failed ParseURL or Clone
    discovered      \* clone: the Repository discovery makes of the cloned path

repoVars  == <<branches, head, dirty>>
pruneVars == <<goneOnly, mergedOnly, dryRun, prunePc, defaultBranch,
               branchesToPrune, pruneIdx, call, preview>>
updVars   == <<fetchOnly, pruneArg, updPc, originalBranch, updLines, updIdx,
               results, hasError, updRet, gitLog, headAtStart>>
pcmdVars  == <<argv, pcmdPc, pruneResult>>
fanVars   == <<variant, flagFetchOnly, displayAll, workerPc, updateArgs, resultChan, chanClosed,
               wgCount, mainPc, collected, received, renderIdx, rendered, warnings>>
statVars  == <<outLines, linePc, status, statPc>>
findVars  == <<parentDir, gitDirs, findPath, filters, walkQueue, foundRepos, findRet,
               findPc>>
cloneVars == <<cloneUrl, cloneRoot, cloneRepo, clonePc, discovered>>
cmdVars   == <<pcmdVars, fanVars, statVars, findVars, cloneVars>>
vars == <<repoVars, pruneVars, updVars, cmdVars>>

(***************************************************************************)
(* Bounds of the model.                                                    *)
(***************************************************************************)
MaxBehind == 1
MaxArgs == 2
NumRepos == 3
MaxDirs == 3
MaxList == 2
MaxSegs == 3

(***************************************************************************)
(* The working tree.  `git branch` lists the branches sorted by name.      *)
(***************************************************************************)
BranchOrder == <<"feat", "main", "master">>
Names == {BranchOrder[i] : i \in 1..Len(BranchOrder)}

Absent == [present |-> FALSE, track |-> "none", behind |-> 0, merged |-> FALSE]

\* A branch has no upstream ("none"), an upstream that was deleted ("gone") or a
\* live upstream it may be behind of; `merged` says whether `git branch --merged`
\* lists it for the default branch.
BranchStates ==
    {Absent} \cup
    {[present |-> TRUE, track |-> t, behind |-> b, merged |-> m] :
        t \in {"none", "gone"}, b \in {0}, m \in BOOLEAN} \cup
    {[present |-> TRUE, track |-> "live", behind |-> b, merged |-> m] :
        b \in 0..MaxBehind, m \in BOOLEAN}

Present(brs) == {n \in Names : brs[n].present}

NoBranch == [Name |-> "", Current |-> FALSE, RemoteTracking |-> "",
             NoRemoteTracking |-> FALSE, RemoteGone |-> FALSE,
             Ahead |-> 0, Behind |-> 0, nil |-> TRUE]

(***************************************************************************)
(* Text.  A string of the program is a sequence of tokens: " " is one      *)
(* space, "*", "[", "]", ":" and "," are those characters, and any other   *)
(* token is a run of characters holding none of them.                      *)
(***************************************************************************)
\* strings.Index: the place of the first token tok, 0 when there is none.
Index(text, tok) ==
    IF \E i \in 1..Len(text) : text[i] = tok
      THEN CHOOSE i \in 1..Len(text) : text[i] = tok /\ \A j \in 1..(i - 1) : text[j] # tok
      ELSE 0

RECURSIVE TrimLeft(_)
TrimLeft(text) ==
    IF text # <<>> /\ Head(text) = " " THEN TrimLeft(Tail(text)) ELSE text

RECURSIVE TrimRight(_)
TrimRight(text) ==
    IF text # <<>> /\ text[Len(text)] = " "
      THEN TrimRight(SubSeq(text, 1, Len(text) - 1)) ELSE text

TrimSpace(text) == TrimRight(TrimLeft(text))

HasPrefix(text, prefix) ==
    Len(text) >= Len(prefix) /\ SubSeq(text, 1, Len(prefix)) = prefix

TrimPrefix(text, prefix) ==
    IF HasPrefix(text, prefix) THEN SubSeq(text, Len(prefix) + 1, Len(text)) ELSE text

\* The Go string of a text.
RECURSIVE Join(_)
Join(text) == IF text = <<>> THEN "" ELSE Head(text) \o Join(Tail(text))

\* strings.Contains(trackInfo, "gone"): the tokens that hold the letters "gone".
GoneWords == {"gone"}

ContainsGone(text) == \E i \in 1..Len(text) : text[i] \in GoneWords

\* fmt.Sscanf(text, word + " %d", &n): the number that follows the word and
\* any spaces, and `old`, the value n had, when no number follows.
Sscanf(text, old) ==
    LET rest == TrimLeft(Tail(text))
    IN IF rest # <<>> /\ \E n \in 0..MaxBehind : ToString(n) = Head(rest)
         THEN CHOOSE n \in 0..MaxBehind : ToString(n) = Head(rest)
         ELSE old

\* The lines of `git branch -vv`: "* " or two spaces, the name, the abbreviated
\* hash, the upstream in brackets when the branch has one, with ": gone" or
\* ": behind N" after it, and the subject of the commit.
TrackText(brs, n) ==
    LET remote == "origin/" \o n
    IN CASE brs[n].track = "none" -> <<>>
         [] brs[n].track = "gone" -> <<"[", remote, ":", " ", "gone", "]", " ">>
         [] brs[n].behind = 0     -> <<"[", remote, "]", " ">>
         [] OTHER -> <<"[", remote, ":", " ", "behind", " ", ToString(brs[n].behind), "]", " ">>

GitLine(brs, hd, n) ==
    (IF n = hd THEN <<"*", " ">> ELSE <<" ", " ">>)
        \o <<n, " ", "1a2b3c4", " ">> \o TrackText(brs, n) \o <<"subject">>

RECURSIVE ListingFrom(_, _, _)
ListingFrom(brs, hd, i) ==
    IF i > Len(BranchOrder) THEN <<>>
    ELSE (IF brs[BranchOrder[i]].present
            THEN <<GitLine(brs, hd, BranchOrder[i])>> ELSE <<>>)
         \o ListingFrom(brs, hd, i + 1)

BranchListing(brs, hd) == ListingFrom(brs, hd, 1)

\* parseBranchInfo: nil for a blank line and for a line with no space after
\* the name; the text between the first "[" and the first "]" of what follows
\* the name is the tracking information.
parseBranchInfo(text) ==
    LET line0 == TrimSpace(text)
        Current == HasPrefix(line0, <<"*", " ">>)
        line1 == IF Current THEN TrimPrefix(line0, <<"*", " ">>)
                 ELSE TrimPrefix(line0, <<" ", " ">>)
        spaceIndex == Index(line1, " ")
        line == TrimSpace(SubSeq(line1, spaceIndex, Len(line1)))
        startIdx == Index(line, "[")
        endIdx == Index(line, "]")
        trackingInfoFound == startIdx # 0 /\ endIdx # 0 /\ endIdx > startIdx
        trackInfo == SubSeq(line, startIdx + 1, endIdx - 1)
        gone == trackingInfoFound /\ ContainsGone(trackInfo)
        parsed == trackingInfoFound /\ ~gone
        colonIndex == Index(trackInfo, ":")
        statusInfo == SubSeq(trackInfo, colonIndex + 1, Len(trackInfo))
        aheadIdx == Index(statusInfo, "ahead")
        behindIdx == Index(statusInfo, "behind")
        RemoteTracking ==
            IF ~parsed THEN ""
            ELSE IF colonIndex # 0
                   THEN Join(TrimSpace(SubSeq(trackInfo, 1, colonIndex - 1)))
                   ELSE Join(TrimSpace(trackInfo))
    IN IF line0 = <<>> \/ spaceIndex = 0 THEN NoBranch
       ELSE [Name |-> Join(SubSeq(line1, 1, spaceIndex - 1)),
             Current |-> Current,
             RemoteTracking |-> RemoteTracking,
             NoRemoteTracking |-> (~trackingInfoFound /\ RemoteTracking = ""),
             RemoteGone |-> gone,
             Ahead |-> IF parsed /\ colonIndex # 0 /\ aheadIdx # 0
                         THEN Sscanf(SubSeq(statusInfo, aheadIdx, Len(statusInfo)), 0)
                         ELSE 0,
             Behind |-> IF parsed /\ colonIndex # 0 /\ behindIdx # 0
                          THEN Sscanf(SubSeq(statusInfo, behindIdx, Len(statusInfo)), 0)
                          ELSE 0,
             nil |-> FALSE]

RECURSIVE ParseLines(_)
ParseLines(lines) ==
    IF lines = <<>> THEN <<>>
    ELSE LET b == parseBranchInfo(Head(lines))
         IN (IF b.nil THEN <<>> ELSE <<b>>) \o ParseLines(Tail(lines))

Range(s) == {s[i] : i \in 1..Len(s)}

\* The orders in which the parsing goroutines of getBranchInformation may append
\* under the mutex: every arrangement of the parsed lines.
Arrangements(s) ==
    {[i \in 1..Len(s) |-> s[p[i]]] : p \in Permutations(1..Len(s))}

\* Status(): the branch list of a successful status query.
StatusBranches(brs, hd) == Arrangements(ParseLines(BranchListing(brs, hd)))

(***************************************************************************)
(* Status and getBranchInformation: one goroutine per line of the output   *)
(* of `git branch -vv`, each parsing its line and appending the branch to  *)
(* the status under the mutex.                                             *)
(***************************************************************************)
NoFilters == [host |-> "", org |-> "", repo |-> ""]

NewStatus == [Branches |-> <<>>, CurrentBranch |-> "",
              HasBranchesWithoutRemote |-> FALSE,
              HasBranchesWithRemoteGone |-> FALSE,
              HasBranchesBehindRemote |-> FALSE]

StatIdle ==
    /\ outLines = <<>>
    /\ linePc = <<>>
    /\ status = NewStatus
    /\ statPc = "idle"

FindIdle ==
    /\ parentDir = <<>>
    /\ gitDirs = {}
    /\ findPath = -1
    /\ filters = NoFilters
    /\ walkQueue = <<>>
    /\ foundRepos = <<>>
    /\ findRet = <<>>
    /\ findPc = "idle"

NewRepository == [Host |-> "", Organization |-> "", Name |-> "", Path |-> <<>>]

NoUrl == [scheme |-> "", host |-> "", segs |-> <<>>, text |-> <<>>]

CloneIdle ==
    /\ cloneUrl = NoUrl
    /\ cloneRoot = <<>>
    /\ cloneRepo = NewRepository
    /\ clonePc = "idle"
    /\ discovered = NewRepository

frameStat == <<repoVars, pruneVars, updVars, pcmdVars, fanVars, findVars, cloneVars>>

\* strings.Split(strings.TrimSpace(output), "\n"): an empty output is one
\* empty line.
SplitLines(output) == IF output = <<>> THEN << <<>> >> ELSE output

\* The goroutine of line i parses its line; a nil branch ends it.
ParseLine(i) ==
    /\ statPc = "parsing"
    /\ linePc[i] = "start"
    /\ linePc' = [linePc EXCEPT ![i] = IF parseBranchInfo(outLines[i]).nil THEN "done"
                                        ELSE "parsed"]
    /\ UNCHANGED <<frameStat, outLines, status, statPc>>

\* A behind test that also takes a branch level with its upstream.
IsBehindOrLevel(branch) == branch.Behind >= 0

IsBehind(branch) == branch.Behind > 0

\* The goroutine of line i, holding the mutex, appends its branch and sets the
\* flags of the status.
AppendBranch(i) ==
    /\ statPc = "parsing"
    /\ linePc[i] = "parsed"
    /\ LET branch == parseBranchInfo(outLines[i])
       IN status' = [Branches |-> Append(status.Branches, branch),
                     CurrentBranch |-> IF branch.Current THEN branch.Name
                                       ELSE status.CurrentBranch,
                     HasBranchesWithoutRemote |->
                         status.HasBranchesWithoutRemote \/ branch.NoRemoteTracking,
                     HasBranchesWithRemoteGone |->
                         status.HasBranchesWithRemoteGone \/ branch.RemoteGone,
                     HasBranchesBehindRemote |->
                         status.HasBranchesBehindRemote \/ IsBehind(branch)]
    /\ linePc' = [linePc EXCEPT ![i] = "done"]
    /\ UNCHANGED <<frameStat, outLines, statPc>>

\* A wait that ends with the first goroutine that is done.
WaitedForOne(pcs) == \E i \in 1..Len(pcs) : pcs[i] = "done"

\* wg.Wait(): every goroutine has called wg.Done().
Waited(pcs) == \A i \in 1..Len(pcs) : pcs[i] = "done"

\* wg.Wait() of getBranchInformation is over and Status returns the status.
StatusReturn ==
    /\ statPc = "parsing"
    /\ Waited(linePc)
    /\ statPc' = "done"
    /\ UNCHANGED <<frameStat, outLines, linePc, status>>

\* A lookup that asks for master before main.
GetDefaultBranchMasterFirst(brs, hd, revParseOk) ==
    IF brs["master"].present THEN "master"
    ELSE IF brs["main"].present THEN "main"
    ELSE IF revParseOk THEN hd ELSE ""

\* GetDefaultBranch: main when refs/heads/main exists, else master, else the
\* current branch; "" stands for the error of a failed current-branch lookup.
GetDefaultBranch(brs, hd, revParseOk) ==
    IF brs["main"].present THEN "main"
    ELSE IF brs["master"].present THEN "master"
    ELSE IF revParseOk THEN hd ELSE ""

\* `git branch --merged <default>`: the names it lists.
MergedListing(brs) == {n \in Present(brs) : brs[n].merged}

\* A skip test that forgets the default branch.
SkipBranchCurrentOnly(b, def) == b.Current

\* The skip test of identifyBranchesToPrune.
SkipBranch(b, def) == b.Current \/ b.Name = def

\* A criterion that takes a gone upstream without asking for goneOnly.
ShouldPruneAnyGone(b, brs, g, m, mergeFail) ==
    \/ b.RemoteGone
    \/ m /\ b.Name \notin mergeFail /\ b.Name \in MergedListing(brs)

\* A criterion that takes a failed `branch --merged` for a merged branch.
ShouldPruneOnFailure(b, brs, g, m, mergeFail) ==
    \/ g /\ b.RemoteGone
    \/ m /\ (b.Name \in mergeFail \/ b.Name \in MergedListing(brs))

\* shouldPrune of identifyBranchesToPrune; mergeFail holds the branches whose
\* `branch --merged` command failed.
ShouldPrune(b, brs, g, m, mergeFail) ==
    \/ g /\ b.RemoteGone
    \/ m /\ b.Name \notin mergeFail /\ b.Name \in MergedListing(brs)

identifyBranchesToPrune(stBranches, brs, def, g, m, mergeFail) ==
    LET keep(b) == ~SkipBranch(b, def) /\ ShouldPrune(b, brs, g, m, mergeFail)
        names(s) == [i \in 1..Len(s) |-> s[i].Name]
    IN names(SelectSeq(stBranches, keep))

(***************************************************************************)
(* PruneBranches.  `call` records one call: its dryRun argument, the tree it *)
(* started from, the `branch --merged` commands that failed, the branch -D   *)
(* commands issued, and the returned list and error ("" is nil, "running"    *)
(* an unfinished call).                                                      *)
(***************************************************************************)
CallRecord(d, list, err, issued, brs, fail) ==
    [dryRun |-> d, list |-> list, err |-> err, issued |-> issued,
     repo |-> brs, mergeFail |-> fail]

NoCall == CallRecord(FALSE, <<>>, "none", <<>>, [n \in Names |-> Absent], {})

\* The branches for which a failing `branch --merged` changes the outcome.
MergeChecked(st, brs, def) ==
    {st[i].Name : i \in {j \in 1..Len(st) :
        ~(st[j].Current \/ st[j].Name = def) /\ brs[st[j].Name].merged}}

\* A deletion guard that ignores dryRun.
ShouldDeleteIgnoringDryRun(d, list) == Len(list) > 0

\* The guard of the deletion loop of PruneBranches.
ShouldDelete(d, list) == ~d /\ Len(list) > 0

\* A session of PruneBranches calls on one working tree: a call, or a successful
\* dry run followed by a call.  A call after a deleting call, or after two dry
\* runs, starts from a tree and a history that an initial state already covers.
CanCall ==
    \/ call = NoCall
    \/ call.dryRun /\ call.err = "" /\ preview = NoCall

\* PruneBranches up to the deletion loop: Status, identifyBranchesToPrune, and the
\* returns of a failed status, a failed default-branch lookup, a dry run and an
\* empty list.
PruneBranches(d) ==
    /\ prunePc = "idle"
    /\ CanCall
    /\ dryRun' = d
    /\ preview' = call
    /\ \E statusOk \in BOOLEAN :
         IF ~statusOk
           THEN /\ call' = CallRecord(d, <<>>, "status", <<>>, branches, {})
                /\ UNCHANGED <<prunePc, defaultBranch, branchesToPrune, pruneIdx>>
         ELSE \E st \in StatusBranches(branches, head),
                 revParseOk \in IF Present(branches) \cap {"main", "master"} = {}
                                  THEN BOOLEAN ELSE {TRUE} :
           LET def == GetDefaultBranch(branches, head, revParseOk)
           IN IF def = ""
                THEN /\ call' = CallRecord(d, <<>>, "default", <<>>, branches, {})
                     /\ UNCHANGED <<prunePc, defaultBranch, branchesToPrune, pruneIdx>>
              ELSE \E mergeFail \in SUBSET (IF mergedOnly
                                             THEN MergeChecked(st, branches, def) ELSE {}) :
                     LET list == identifyBranchesToPrune(st, branches, def,
                                                         goneOnly, mergedOnly, mergeFail)
                         deleting == ShouldDelete(d, list)
                     IN /\ defaultBranch' = def
                        /\ branchesToPrune' = list
                        /\ pruneIdx' = IF deleting THEN 1 ELSE 0
                        /\ prunePc' = IF deleting THEN "deleting" ELSE "idle"
                        /\ call' = CallRecord(d, list, IF deleting THEN "running" ELSE "",
                                              <<>>, branches, mergeFail)
    /\ UNCHANGED <<repoVars, goneOnly, mergedOnly>>
    /\ UNCHANGED updVars

\* `git branch -D b`: a deleted branch leaves the working tree.
DeleteBranch(brs, b) == [brs EXCEPT ![b] = Absent]

\* A deletion loop that goes on after a failure.
LoopEndsAtLastOnly(ok, idx, n) == idx = n

\* The deletion loop ends with the first failure or after the last branch.
LoopEnds(ok, idx, n) == ~ok \/ idx = n

\* One iteration of the deletion loop of PruneBranches: the first failure returns
\* the list with the error.
PruneDeleteLoop ==
    /\ prunePc = "deleting"
    /\ LET b == branchesToPrune[pruneIdx]
       IN \E ok \in BOOLEAN :
            LET done == LoopEnds(ok, pruneIdx, Len(branchesToPrune))
            IN /\ branches' = IF ok THEN DeleteBranch(branches, b) ELSE branches
               /\ pruneIdx' = IF done THEN pruneIdx ELSE pruneIdx + 1
               /\ prunePc' = IF done THEN "idle" ELSE "deleting"
               /\ call' = [call EXCEPT
                     !.issued = Append(@, [branch |-> b, ok |-> ok]),
                     !.err = IF ~ok THEN "delete" ELSE IF done THEN "" ELSE "running"]
    /\ UNCHANGED <<head, dirty, goneOnly, mergedOnly, dryRun, defaultBranch,
                   branchesToPrune, preview>>
    /\ UNCHANGED updVars

(***************************************************************************)
(* Update.  gitLog holds one entry per git command: the command, its        *)
(* argument (the branch of a checkout; for a pull the branch Update pulls   *)
(* for), the branch checked out when it was issued, and whether it          *)
(* succeeded.  `branches` holds the upstream relation as the fetch leaves   *)
(* it.                                                                     *)
(***************************************************************************)
Cmd(c, arg, on, ok) == [cmd |-> c, arg |-> arg, on |-> on, ok |-> ok]

NoResults == [n \in Names |-> "absent"]

\* The UpdateResult and error Update returns; isNil is a nil *UpdateResult.
UpdateReturn(isNil, res, hasErr, err) ==
    [isNil |-> isNil, results |-> res, HasErrors |-> hasErr, err |-> err]

NotReturned == UpdateReturn(TRUE, NoResults, FALSE, "running")

UpdateIdle ==
    /\ updPc = "idle"
    /\ originalBranch = ""
    /\ updLines = <<>>
    /\ updIdx = 0
    /\ results = NoResults
    /\ hasError = FALSE
    /\ updRet = NotReturned
    /\ gitLog = <<>>
    /\ headAtStart = head

\* Update, first step: GetCurrentBranch.
UpdateCurrentBranch ==
    /\ updPc = "idle"
    /\ updRet = NotReturned
    /\ \E ok \in BOOLEAN :
         /\ gitLog' = Append(gitLog, Cmd("rev-parse", "HEAD", head, ok))
         /\ IF ok
              THEN /\ originalBranch' = head
                   /\ updPc' = "fetch"
                   /\ UNCHANGED updRet
              ELSE /\ updRet' = UpdateReturn(TRUE, NoResults, FALSE, "current")
                   /\ updPc' = "done"
                   /\ UNCHANGED originalBranch
    /\ UNCHANGED <<repoVars, pruneVars, cmdVars, fetchOnly, pruneArg, updLines, updIdx,
                   results, hasError, headAtStart>>

\* Update: git fetch [--prune].
UpdateFetch ==
    /\ updPc = "fetch"
    /\ \E ok \in BOOLEAN :
         /\ gitLog' = Append(gitLog,
                Cmd("fetch", IF pruneArg THEN "--prune" ELSE "", head, ok))
         /\ IF ok
              THEN /\ updPc' = "status"
                   /\ UNCHANGED updRet
              ELSE /\ updRet' = UpdateReturn(TRUE, NoResults, FALSE, "fetch")
                   /\ updPc' = "done"
    /\ UNCHANGED <<repoVars, pruneVars, cmdVars, fetchOnly, pruneArg, originalBranch,
                   updLines, updIdx, results, hasError, headAtStart>>

\* The commands of Status(): status --porcelain, branch -vv, stash list; the
\* first that fails ends it.  failAt = 0 is a successful Status.
StatusCommands(failAt, hd) ==
    LET all == <<"status", "branch", "stash">>
        n == IF failAt = 0 THEN 3 ELSE failAt
    IN [i \in 1..n |-> Cmd(all[i], "", hd, i # failAt)]

\* A dirty test that never refuses.
RefusesNever(isDirty) == FALSE

\* Update refuses to go on when the status has uncommitted changes.
RefusesDirty(isDirty) == isDirty

\* A loop guard that ignores fetchOnly.
ProcessesBranchesAlways(fo) == TRUE

\* Update processes the branches only when fetchOnly is false.
ProcessesBranches(fo) == ~fo

\* Update: Status(), the uncommitted-changes test, the fetchOnly return and the
\* `git branch -vv` that feeds the branch loop.
UpdateStatus ==
    /\ updPc = "status"
    /\ \E failAt \in 0..3, listOk \in BOOLEAN :
         LET log1 == gitLog \o StatusCommands(failAt, head)
         IN IF failAt # 0
              THEN /\ listOk
                   /\ gitLog' = log1
                   /\ updRet' = UpdateReturn(TRUE, NoResults, FALSE, "status")
                   /\ updPc' = "done"
                   /\ UNCHANGED <<updLines, updIdx>>
            ELSE IF RefusesDirty(dirty)
              THEN /\ listOk
                   /\ gitLog' = log1
                   /\ updRet' = UpdateReturn(TRUE, NoResults, FALSE, "uncommitted")
                   /\ updPc' = "done"
                   /\ UNCHANGED <<updLines, updIdx>>
            ELSE IF ~ProcessesBranches(fetchOnly)
              THEN /\ listOk
                   /\ gitLog' = log1
                   /\ updRet' = UpdateReturn(FALSE, results, hasError, "")
                   /\ updPc' = "done"
                   /\ UNCHANGED <<updLines, updIdx>>
            ELSE /\ gitLog' = Append(log1, Cmd("branch", "-vv", head, listOk))
                 /\ IF listOk
                      THEN /\ updLines' = BranchListing(branches, head)
                           /\ updIdx' = 1
                           /\ updPc' = "branches"
                           /\ UNCHANGED updRet
                      ELSE /\ updRet' = UpdateReturn(TRUE, NoResults, FALSE, "branch")
                           /\ updPc' = "done"
                           /\ UNCHANGED <<updLines, updIdx>>
    /\ UNCHANGED <<repoVars, pruneVars, cmdVars, fetchOnly, pruneArg, originalBranch,
                   results, hasError, headAtStart>>

\* The branches the loop of Update acts on: parsed, tracked and not gone.
Updatable(b) == ~b.nil /\ ~b.NoRemoteTracking /\ ~b.RemoteGone

\* `git pull --rebase` that succeeds brings the checked-out branch level with
\* its upstream.
PullBranch(brs, hd) == [brs EXCEPT ![hd].behind = 0]

\* An error flag that forgets the errors of the branches before.
HasErrorOfLastPull(hasErr, pullOk) == ~pullOk

\* hasError after a pull: set by a failed pull, never reset.
HasErrorAfterPull(hasErr, pullOk) == hasErr \/ ~pullOk

\* A fast path that is never taken.
NotBehindNever(branch) == FALSE

\* The fast path of the branch loop: the branch is not behind its upstream.
NotBehind(branch) == branch.Behind <= 0

\* Update: one iteration of the branch loop.
UpdateBranch ==
    /\ updPc = "branches"
    /\ updIdx <= Len(updLines)
    /\ updIdx' = updIdx + 1
    /\ LET branch == parseBranchInfo(updLines[updIdx])
       IN IF ~Updatable(branch)
            THEN UNCHANGED <<branches, head, results, hasError, gitLog>>
          ELSE IF NotBehind(branch)
            THEN /\ results' = [results EXCEPT ![branch.Name] = "nil"]
                 /\ UNCHANGED <<branches, head, hasError, gitLog>>
          ELSE \E coOk \in BOOLEAN, pullOk \in BOOLEAN :
                 LET needCo == branch.Name # originalBranch
                     co == IF needCo
                             THEN <<Cmd("checkout", branch.Name, head, coOk)>> ELSE <<>>
                 IN IF needCo /\ ~coOk
                      THEN /\ pullOk
                           /\ gitLog' = gitLog \o co
                           /\ results' = [results EXCEPT ![branch.Name] = "checkout"]
                           /\ hasError' = TRUE
                           /\ UNCHANGED <<branches, head>>
                    ELSE /\ needCo \/ coOk
                         /\ head' = IF needCo THEN branch.Name ELSE head
                         /\ gitLog' = gitLog \o co
                                \o <<Cmd("pull", branch.Name, head', pullOk)>>
                         /\ branches' = IF pullOk THEN PullBranch(branches, head')
                                        ELSE branches
                         /\ results' = [results EXCEPT ![branch.Name] =
                                           IF pullOk THEN "nil" ELSE "pull"]
                         /\ hasError' = HasErrorAfterPull(hasError, pullOk)
    /\ UNCHANGED <<dirty, pruneVars, cmdVars, fetchOnly, pruneArg, updPc,
                   originalBranch, updLines, updRet, headAtStart>>

\* A restore that is skipped after an error.
RestoresUnlessError(orig, hasErr) == orig # "" /\ ~hasErr

\* Update restores the original branch when it has its name.
Restores(orig, hasErr) == orig # ""

\* Update, after the loop: the checkout of the original branch and the return.
UpdateRestore ==
    /\ updPc = "branches"
    /\ updIdx > Len(updLines)
    /\ updPc' = "done"
    /\ IF Restores(originalBranch, hasError)
         THEN \E ok \in BOOLEAN :
                /\ gitLog' = Append(gitLog, Cmd("checkout", originalBranch, head, ok))
                /\ head' = IF ok THEN originalBranch ELSE head
                /\ updRet' = IF ok THEN UpdateReturn(FALSE, results, hasError, "")
                             ELSE UpdateReturn(FALSE, results, TRUE, "restore")
         ELSE /\ updRet' = UpdateReturn(FALSE, results, hasError, "")
              /\ UNCHANGED <<head, gitLog>>
    /\ UNCHANGED <<branches, dirty, pruneVars, cmdVars, fetchOnly, pruneArg,
                   originalBranch, updLines, updIdx, results, hasError, headAtStart>>

(***************************************************************************)
(* The prune command (cmd/prune.go), on one of the repositories it found:  *)
(* each repository is pruned by its own goroutine on its own working tree.  *)
(***************************************************************************)
\* init(): the two boolean flags registered on the variable dryRun, in order,
\* with their defaults.
DryRunFlags == <<[name |-> "dry-run", value |-> TRUE],
                 [name |-> "no-dry-run", value |-> FALSE]>>

FlagNames == {DryRunFlags[i].name : i \in 1..Len(DryRunFlags)}

\* Flags().BoolVar(&dryRun, name, value, usage) stores value in dryRun: after
\* init() the variable holds the default of the flag registered last.
RECURSIVE BoolVars(_, _)
BoolVars(v, flags) ==
    IF flags = <<>> THEN v ELSE BoolVars(Head(flags).value, Tail(flags))

DryRunAfterInit == BoolVars(FALSE, DryRunFlags)

\* A flag on the command line: --name sets the variable the flag is registered
\* on to true, --name=false to false.
FlagArgs == [flag : FlagNames, val : {"", "false"}]

SetFlag(v, arg) == arg.val # "false"

RECURSIVE ParseFlags(_, _)
ParseFlags(v, args) ==
    IF args = <<>> THEN v ELSE ParseFlags(SetFlag(v, Head(args)), Tail(args))

CommandLines == UNION {[1..n -> FlagArgs] : n \in 0..MaxArgs}

NoPruneResult == [Error |-> "none", PrunedBranches |-> <<>>]

Repos == 1..NumRepos

FanIdle ==
    /\ variant = "none"
    /\ flagFetchOnly = FALSE
    /\ displayAll = FALSE
    /\ workerPc = [r \in Repos |-> "idle"]
    /\ updateArgs = [r \in Repos |-> <<>>]
    /\ resultChan = <<>>
    /\ chanClosed = FALSE
    /\ wgCount = 0
    /\ mainPc = "idle"
    /\ collected = {}
    /\ received = <<>>
    /\ renderIdx = 0
    /\ rendered = <<>>
    /\ warnings = {}

PruneCmdIdle ==
    /\ argv = <<>>
    /\ pcmdPc = "idle"
    /\ pruneResult = NoPruneResult
    /\ FanIdle
    /\ StatIdle
    /\ FindIdle
    /\ CloneIdle

\* pruneCmd.RunE: the flags are parsed; with neither criterion the command
\* returns an error, else it goes on to pruneRepositories.
PruneCmdRun ==
    /\ pcmdPc = "start"
    /\ dryRun' = ParseFlags(dryRun, argv)
    /\ pcmdPc' = IF ~goneOnly /\ ~mergedOnly THEN "rejected" ELSE "status"
    /\ UNCHANGED <<fanVars, statVars, findVars, cloneVars, repoVars, updVars, argv, pruneResult, goneOnly, mergedOnly, prunePc,
                   defaultBranch, branchesToPrune, pruneIdx, call, preview>>

\* pruneRepositories, the goroutine of the repository: repo.Status().
PruneCmdStatus ==
    /\ pcmdPc = "status"
    /\ \E ok \in BOOLEAN :
         IF ok THEN /\ pcmdPc' = "prune"
                    /\ UNCHANGED pruneResult
         ELSE /\ pruneResult' = [Error |-> "status", PrunedBranches |-> <<>>]
              /\ pcmdPc' = "render"
    /\ UNCHANGED <<fanVars, statVars, findVars, cloneVars, repoVars, pruneVars, updVars, argv>>

\* repo.PruneBranches(goneOnly, mergedOnly, dryRun).
PruneCmdPrune ==
    /\ pcmdPc = "prune"
    /\ PruneBranches(dryRun)
    /\ pcmdPc' = "pruning"
    /\ UNCHANGED <<argv, pruneResult, fanVars, statVars, findVars, cloneVars>>

PruneCmdDelete ==
    /\ pcmdPc = "pruning"
    /\ PruneDeleteLoop
    /\ UNCHANGED cmdVars

\* The PruneResult stored once PruneBranches has returned.
PruneCmdResult ==
    /\ pcmdPc = "pruning"
    /\ prunePc = "idle"
    /\ pruneResult' = IF call.err # "" THEN [Error |-> call.err, PrunedBranches |-> <<>>]
                      ELSE [Error |-> "", PrunedBranches |-> call.list]
    /\ pcmdPc' = "render"
    /\ UNCHANGED <<fanVars, statVars, findVars, cloneVars, repoVars, pruneVars, updVars, argv>>

\* tui.RenderPruneResults and the return of the command.
PruneCmdRender ==
    /\ pcmdPc = "render"
    /\ pcmdPc' = "done"
    /\ UNCHANGED <<fanVars, statVars, findVars, cloneVars, repoVars, pruneVars, updVars, argv, pruneResult>>

RepoInit ==
    /\ branches \in [Names -> BranchStates]
    /\ head \in Present(branches)
    /\ dirty \in BOOLEAN

PruneIdle ==
    /\ prunePc = "idle"
    /\ defaultBranch = ""
    /\ branchesToPrune = <<>>
    /\ pruneIdx = 0
    /\ call = NoCall
    /\ preview = NoCall

\* A caller of PruneBranches: goneOnly and mergedOnly are those of one invocation,
\* dryRun is chosen per call.
InitPrune ==
    /\ RepoInit
    /\ \A n \in Names : branches[n].behind = 0
    /\ dirty = FALSE
    /\ goneOnly \in BOOLEAN
    /\ mergedOnly \in BOOLEAN
    /\ dryRun = FALSE
    /\ PruneIdle
    /\ UpdateIdle
    /\ fetchOnly = FALSE
    /\ pruneArg = FALSE
    /\ PruneCmdIdle

\* PruneBranches called directly.
PruneBranchesCall(d) == PruneBranches(d) /\ UNCHANGED cmdVars

PruneDelete == PruneDeleteLoop /\ UNCHANGED cmdVars

NextPrune ==
    \/ \E d \in BOOLEAN : PruneBranchesCall(d)
    \/ PruneDelete

SpecPrune == InitPrune /\ [][NextPrune]_vars

\* One Update call on a working tree.
InitUpdate ==
    /\ RepoInit
    /\ \A n \in Names : ~branches[n].merged
    /\ fetchOnly \in BOOLEAN
    /\ pruneArg \in BOOLEAN
    /\ UpdateIdle
    /\ goneOnly = FALSE
    /\ mergedOnly = FALSE
    /\ dryRun = FALSE
    /\ PruneIdle
    /\ PruneCmdIdle

NextUpdate ==
    \/ UpdateCurrentBranch
    \/ UpdateFetch
    \/ UpdateStatus
    \/ UpdateBranch
    \/ UpdateRestore

SpecUpdate == InitUpdate /\ [][NextUpdate]_vars

\* One run of the prune command, after init(), with some command line.
InitPruneCmd ==
    /\ RepoInit
    /\ \A n \in Names : branches[n].behind = 0 /\ branches[n].track # "none"
    /\ head = "main"
    /\ dirty = FALSE
    /\ goneOnly \in BOOLEAN
    /\ mergedOnly \in BOOLEAN
    /\ dryRun = DryRunAfterInit
    /\ PruneIdle
    /\ UpdateIdle
    /\ fetchOnly = FALSE
    /\ pruneArg = FALSE
    /\ argv \in CommandLines
    /\ pcmdPc = "start"
    /\ pruneResult = NoPruneResult
    /\ FanIdle
    /\ StatIdle
    /\ FindIdle
    /\ CloneIdle

NextPruneCmd ==
    \/ PruneCmdRun
    \/ PruneCmdStatus
    \/ PruneCmdPrune
    \/ PruneCmdDelete
    \/ PruneCmdResult
    \/ PruneCmdRender

SpecPruneCmd == InitPruneCmd /\ [][NextPruneCmd]_vars

(***************************************************************************)
(* The update command (cmd/update.go) and the status command               *)
(* (cmd/status.go): one goroutine per repository found, the repositories   *)
(* named by their place in the list FindRepositories returned.             *)
(***************************************************************************)
repositories == [i \in Repos |-> i]

\* What Update returns: a nil result with an error when GetCurrentBranch, the
\* fetch, Status or the listing fails or the tree is dirty; a result with a
\* nil error; a result with the error of a failed restoring checkout.
UpdateOutcomes == {"current", "fetch", "status", "uncommitted", "branch", "", "restore"}

UpdateResultIsNil(out) == out \in {"current", "fetch", "status", "uncommitted", "branch"}

\* What Status returns: a nil status with an error when the path is missing or
\* a command fails, else a status, which has issues or has none.
StatusOutcomes == {"clean", "issues", "failed"}

StatusIsNil(out) == out = "failed"

Running == mainPc # "panic"

frameFan == <<repoVars, pruneVars, updVars, pcmdVars, statVars, findVars, cloneVars, variant, flagFetchOnly,
              displayAll>>

\* update command, the goroutine of r: r.Update(false, false) and the send of
\* its result on the buffered channel.
UpdateCmdSend(r) ==
    /\ variant = "update" /\ Running
    /\ workerPc[r] = "start"
    /\ Len(resultChan) < NumRepos
    /\ \E out \in UpdateOutcomes :
         /\ resultChan' = Append(resultChan,
                [path |-> r, isNil |-> UpdateResultIsNil(out), err |-> out # "",
                 issues |-> FALSE])
         /\ workerPc' = [workerPc EXCEPT ![r] = IF out # "" THEN "warn" ELSE "exit"]
    /\ updateArgs' = [updateArgs EXCEPT ![r] = <<FALSE, FALSE>>]
    /\ UNCHANGED <<frameFan, chanClosed, wgCount, mainPc, collected, received,
                   renderIdx, rendered, warnings>>

\* The goroutine of r prints the warning of a failed update.
UpdateCmdWarn(r) ==
    /\ variant = "update" /\ Running
    /\ workerPc[r] = "warn"
    /\ warnings' = warnings \cup {r}
    /\ workerPc' = [workerPc EXCEPT ![r] = "exit"]
    /\ UNCHANGED <<frameFan, updateArgs, resultChan, chanClosed, wgCount, mainPc,
                   collected, received, renderIdx, rendered>>

\* The deferred wg.Done() of the goroutine of r.
WorkerDone(r) ==
    /\ variant \in {"update", "chan"} /\ Running
    /\ workerPc[r] = "exit"
    /\ workerPc' = [workerPc EXCEPT ![r] = "done"]
    /\ wgCount' = wgCount - 1
    /\ UNCHANGED <<frameFan, updateArgs, resultChan, chanClosed, mainPc, collected,
                   received, renderIdx, rendered, warnings>>

\* The closing goroutine: wg.Wait() then close(resultChan).
CloseChan ==
    /\ variant \in {"update", "chan"} /\ Running
    /\ wgCount = 0
    /\ ~chanClosed
    /\ chanClosed' = TRUE
    /\ UNCHANGED <<frameFan, workerPc, updateArgs, resultChan, wgCount, mainPc,
                   collected, received, renderIdx, rendered, warnings>>

\* RunE receives one result and stores it under result.Repository.Path, or
\* under result.status.Repository.Path: a nil result is dereferenced there.
Collect ==
    /\ variant \in {"update", "chan"}
    /\ mainPc = "collect"
    /\ resultChan # <<>>
    /\ LET result == Head(resultChan)
       IN /\ resultChan' = Tail(resultChan)
          /\ IF result.isNil
               THEN /\ mainPc' = "panic"
                    /\ UNCHANGED <<collected, received>>
               ELSE /\ collected' = {c \in collected : c.path # result.path} \cup {result}
                    /\ received' = Append(received, result.path)
                    /\ UNCHANGED mainPc
    /\ UNCHANGED <<frameFan, workerPc, updateArgs, chanClosed, wgCount, renderIdx,
                   rendered, warnings>>

\* The range over the channel ends once it is closed and drained.
CollectEnd ==
    /\ variant \in {"update", "chan"}
    /\ mainPc = "collect"
    /\ resultChan = <<>>
    /\ chanClosed
    /\ mainPc' = "render"
    /\ renderIdx' = 1
    /\ UNCHANGED <<frameFan, workerPc, updateArgs, resultChan, chanClosed, wgCount,
                   collected, received, rendered, warnings>>

\* A rendering order that follows the arrival of the results.
RenderOrderOfArrival == received

\* The rendering loop ranges over the repositories in the order of the list.
RenderOrder == repositories

\* One iteration of the rendering loop: the result of the repository is
\* rendered, or a warning says that it has none.
Render ==
    /\ variant \in {"update", "chan"}
    /\ mainPc = "render"
    /\ renderIdx <= Len(RenderOrder)
    /\ renderIdx' = renderIdx + 1
    /\ LET repo == RenderOrder[renderIdx]
           exists == \E c \in collected : c.path = repo
           result == CHOOSE c \in collected : c.path = repo
       IN IF ~exists \/ (variant = "chan" /\ result.err)
            THEN /\ warnings' = warnings \cup {repo}
                 /\ UNCHANGED rendered
            ELSE /\ rendered' = IF variant = "update" \/ result.issues
                                  THEN Append(rendered, repo) ELSE rendered
                 /\ UNCHANGED warnings
    /\ UNCHANGED <<frameFan, workerPc, updateArgs, resultChan, chanClosed, wgCount,
                   mainPc, collected, received>>

\* RunE returns nil.
RenderEnd ==
    /\ variant \in {"update", "chan"}
    /\ mainPc = "render"
    /\ renderIdx > Len(RenderOrder)
    /\ mainPc' = "done"
    /\ UNCHANGED <<frameFan, workerPc, updateArgs, resultChan, chanClosed, wgCount,
                   collected, received, renderIdx, rendered, warnings>>

\* status command (part_014), the goroutine of r: r.Status() and the send of
\* the status and its error.
StatusChanSend(r) ==
    /\ variant = "chan" /\ Running
    /\ workerPc[r] = "start"
    /\ Len(resultChan) < NumRepos
    /\ \E out \in StatusOutcomes :
         resultChan' = Append(resultChan,
                [path |-> r, isNil |-> StatusIsNil(out), err |-> StatusIsNil(out),
                 issues |-> out = "issues"])
    /\ workerPc' = [workerPc EXCEPT ![r] = "exit"]
    /\ UNCHANGED <<frameFan, updateArgs, chanClosed, wgCount, mainPc, collected,
                   received, renderIdx, rendered, warnings>>

\* status command (cmd/status.go), the goroutine of r: r.Status(), the warning
\* of a failure, then status.HasIssues() on the status returned, which
\* dereferences it, the rendering and the deferred wg.Done().
StatusWorker(r) ==
    /\ variant = "wg" /\ Running
    /\ workerPc[r] = "start"
    /\ \E out \in StatusOutcomes :
         IF StatusIsNil(out)
           THEN /\ warnings' = warnings \cup {r}
                /\ mainPc' = "panic"
                /\ UNCHANGED <<workerPc, wgCount, rendered>>
           ELSE /\ rendered' = IF out = "issues" \/ displayAll
                                 THEN Append(rendered, r) ELSE rendered
                /\ workerPc' = [workerPc EXCEPT ![r] = "done"]
                /\ wgCount' = wgCount - 1
                /\ UNCHANGED <<warnings, mainPc>>
    /\ UNCHANGED <<frameFan, updateArgs, resultChan, chanClosed, collected, received,
                   renderIdx>>

\* status command (cmd/status.go): wg.Wait() and the return of RunE.
StatusWait ==
    /\ variant = "wg"
    /\ mainPc = "collect"
    /\ wgCount = 0
    /\ mainPc' = "done"
    /\ UNCHANGED <<frameFan, workerPc, updateArgs, resultChan, chanClosed, wgCount,
                   collected, received, renderIdx, rendered, warnings>>

\* RunE has found the repositories, added them to the WaitGroup and started
\* their goroutines.
FanStarted(v) ==
    /\ variant = v
    /\ workerPc = [r \in Repos |-> "start"]
    /\ updateArgs = [r \in Repos |-> <<>>]
    /\ resultChan = <<>>
    /\ chanClosed = FALSE
    /\ wgCount = NumRepos
    /\ mainPc = "collect"
    /\ collected = {}
    /\ received = <<>>
    /\ renderIdx = 0
    /\ rendered = <<>>
    /\ warnings = {}

IdleRepo ==
    /\ branches = [n \in Names |-> IF n = "main"
                     THEN [present |-> TRUE, track |-> "live", behind |-> 0, merged |-> FALSE]
                     ELSE Absent]
    /\ head = "main"
    /\ dirty = FALSE
    /\ goneOnly = FALSE
    /\ mergedOnly = FALSE
    /\ dryRun = FALSE
    /\ PruneIdle
    /\ UpdateIdle
    /\ fetchOnly = FALSE
    /\ pruneArg = FALSE
    /\ argv = <<>>
    /\ pcmdPc = "idle"
    /\ pruneResult = NoPruneResult

IdleTree == IdleRepo /\ StatIdle /\ FindIdle /\ CloneIdle

InitUpdateCmd ==
    /\ IdleTree
    /\ flagFetchOnly \in BOOLEAN
    /\ displayAll = FALSE
    /\ FanStarted("update")

NextUpdateCmd ==
    \/ \E r \in Repos : UpdateCmdSend(r)
    \/ \E r \in Repos : UpdateCmdWarn(r)
    \/ \E r \in Repos : WorkerDone(r)
    \/ CloseChan
    \/ Collect
    \/ CollectEnd
    \/ Render
    \/ RenderEnd

SpecUpdateCmd == InitUpdateCmd /\ [][NextUpdateCmd]_vars

InitStatusCmd ==
    /\ IdleTree
    /\ flagFetchOnly = FALSE
    /\ displayAll \in BOOLEAN
    /\ \E v \in {"wg", "chan"} : FanStarted(v)

NextStatusCmd ==
    \/ \E r \in Repos : StatusWorker(r)
    \/ StatusWait
    \/ \E r \in Repos : StatusChanSend(r)
    \/ \E r \in Repos : WorkerDone(r)
    \/ CloseChan
    \/ Collect
    \/ CollectEnd
    \/ Render
    \/ RenderEnd

SpecStatusCmd == InitStatusCmd /\ [][NextStatusCmd]_vars

(***************************************************************************)
(* Status on its own: the output of `git branch -vv` is the listing of a   *)
(* working tree, or one line whose commit subject is any text.             *)
(***************************************************************************)
Trees == {t \in [brs : [Names -> BranchStates], hd : Names] : t.brs[t.hd].present}

\* Tracking information as git prints it.
TrackInfos ==
    LET remote == "origin/feat"
    IN {<<remote>>, <<remote, ":", " ", "gone">>}
       \cup {<<remote, ":", " ", "ahead", " ", ToString(a)>> : a \in 1..MaxBehind}
       \cup {<<remote, ":", " ", "behind", " ", ToString(b)>> : b \in 1..MaxBehind}
       \cup {<<remote, ":", " ", "ahead", " ", ToString(a), ",", " ", "behind", " ",
               ToString(b)>> : a \in 1..MaxBehind, b \in 1..MaxBehind}

\* Commit subjects: plain words, and words with brackets or a colon in them.
Subjects ==
    {<<"subject">>,
     <<"[", "]", "byte", " ", "fix">>,
     <<"fix", " ", "[", " ", "]">>,
     <<"[", "skip", " ", "ci", "]">>,
     <<"[", "ci", ":", " ", "skip", "]">>,
     <<"]", " ", "then", " ", "[">>,
     <<"gone">>}

LineTexts ==
    {<<>>, <<" ", " ", "feat">>} \cup
    {mark \o <<"feat", " ", "1a2b3c4", " ">> \o track \o subject :
        mark \in {<<"*", " ">>, <<" ", " ">>},
        track \in {<<>>} \cup {<<"[">> \o t \o <<"]", " ">> : t \in TrackInfos},
        subject \in Subjects}

Outputs == {BranchListing(t.brs, t.hd) : t \in Trees} \cup {<<text>> : text \in LineTexts}

InitStatus ==
    /\ IdleRepo
    /\ FanIdle
    /\ FindIdle
    /\ CloneIdle
    /\ \E output \in Outputs :
         /\ outLines = SplitLines(output)
         /\ linePc = [i \in 1..Len(SplitLines(output)) |-> "start"]
    /\ status = NewStatus
    /\ statPc = "parsing"

NextStatus ==
    \/ \E i \in 1..Len(outLines) : ParseLine(i)
    \/ \E i \in 1..Len(outLines) : AppendBranch(i)
    \/ StatusReturn

SpecStatus == InitStatus /\ [][NextStatus]_vars

(***************************************************************************)
(* Repository discovery.  The directories are 0, the root, and 1..MaxDirs   *)
(* below it, each in a directory of lower number; a path is the sequence   *)
(* of the names from "/" down, and filepath.Walk visits the entries of a   *)
(* directory in the order of their names, which is that of their numbers.  *)
(***************************************************************************)
Dirs == 0..MaxDirs

RootName == "home"

SegNames == <<"github.com", "org", "repo">>

SegName(d) == IF d <= Len(SegNames) THEN SegNames[d] ELSE "s" \o ToString(d)

RECURSIVE PathOf(_, _)
PathOf(par, d) == IF d = 0 THEN <<RootName>> ELSE Append(PathOf(par, par[d]), SegName(d))

\* strings.Contains(host, "."): the names that hold a dot.
DomainNames == {"github.com"}

\* CreateRepositoryFromPath: parts are the path split at the separator, the
\* empty string before the leading separator included.
CreateRepositoryFromPath(absPath) ==
    LET parts == <<"">> \o absPath
        n == Len(parts)
    IN IF n < 3 \/ parts[n - 2] \notin DomainNames
         THEN [NewRepository EXCEPT !.Path = absPath, !.Name = parts[n]]
         ELSE [Host |-> parts[n - 2], Organization |-> parts[n - 1], Name |-> parts[n],
               Path |-> absPath]

\* A filter test that lets a repository through when any filter matches.
KeepsIfAnyMatches(r, host, org, repo) ==
    \/ host # "" /\ r.Host = host
    \/ org # "" /\ r.Organization = org
    \/ repo # "" /\ r.Name = repo

\* The loop body of FilterRepositories: every non-empty filter must match.
Keeps(r, host, org, repo) ==
    /\ ~(host # "" /\ r.Host # host)
    /\ ~(org # "" /\ r.Organization # org)
    /\ ~(repo # "" /\ r.Name # repo)

FilterRepositories(repos, host, org, repo) ==
    IF host = "" /\ org = "" /\ repo = "" THEN repos
    ELSE LET keep(r) == Keeps(r, host, org, repo)
         IN SelectSeq(repos, keep)

frameFind == <<repoVars, pruneVars, updVars, pcmdVars, fanVars, statVars, cloneVars, parentDir,
               gitDirs, findPath, filters>>

IsGitRepo(d) == d \in gitDirs

\* The entries of a directory, in the order of their names.
Entries(d) ==
    LET in == {c \in 1..MaxDirs : parentDir[c] = d}
        F[S \in SUBSET in] ==
            IF S = {} THEN <<>>
            ELSE LET c == CHOOSE x \in S : \A y \in S : x <= y
                 IN <<c>> \o F[S \ {c}]
    IN F[in]

\* A walk that never skips a directory.
SkipsNoDir(isRepo) == FALSE

\* The walk function returns filepath.SkipDir for a working tree.
SkipsDir(isRepo) == isRepo

\* FindRepositories, up to the start of the walk: a path that is a working
\* tree is taken alone, any other path, or the root directory, is walked.
FindStart ==
    /\ findPc = "start"
    /\ LET start == IF findPath = -1 THEN 0 ELSE findPath
       IN IF findPath # -1 /\ IsGitRepo(findPath)
            THEN \E ok \in BOOLEAN :
                   /\ foundRepos' = IF ok
                        THEN <<CreateRepositoryFromPath(PathOf(parentDir, findPath))>>
                        ELSE <<>>
                   /\ findPc' = IF ok THEN "filter" ELSE "failed"
                   /\ UNCHANGED walkQueue
            ELSE /\ walkQueue' = <<start>>
                 /\ findPc' = "walk"
                 /\ UNCHANGED foundRepos
    /\ UNCHANGED <<frameFind, findRet>>

\* One call of the walk function: an error, of the walk or of
\* CreateRepositoryFromPath, ends FindRepositories with it.
FindWalk ==
    /\ findPc = "walk"
    /\ walkQueue # <<>>
    /\ LET p == Head(walkQueue)
       IN \E ok \in BOOLEAN :
            IF ~ok
              THEN /\ findPc' = "failed"
                   /\ UNCHANGED <<walkQueue, foundRepos>>
              ELSE /\ foundRepos' = IF IsGitRepo(p)
                        THEN Append(foundRepos, CreateRepositoryFromPath(PathOf(parentDir, p)))
                        ELSE foundRepos
                   /\ walkQueue' = (IF SkipsDir(IsGitRepo(p)) THEN <<>> ELSE Entries(p))
                                      \o Tail(walkQueue)
                   /\ UNCHANGED findPc
    /\ UNCHANGED <<frameFind, findRet>>

\* The walk is over.
FindWalkEnd ==
    /\ findPc = "walk"
    /\ walkQueue = <<>>
    /\ findPc' = "filter"
    /\ UNCHANGED <<frameFind, walkQueue, foundRepos, findRet>>

\* return FilterRepositories(repositories, host, org, repo), nil
FindFilter ==
    /\ findPc = "filter"
    /\ findRet' = FilterRepositories(foundRepos, filters.host, filters.org, filters.repo)
    /\ findPc' = "done"
    /\ UNCHANGED <<frameFind, walkQueue, foundRepos>>

\* The filters of a run of FindRepositories.
FindFilters ==
    {NoFilters,
     [host |-> "", org |-> "", repo |-> "repo"],
     [host |-> "github.com", org |-> "org", repo |-> ""]}

InitFind ==
    /\ IdleRepo
    /\ FanIdle
    /\ StatIdle
    /\ CloneIdle
    /\ parentDir \in {par \in [1..MaxDirs -> Dirs] : \A d \in 1..MaxDirs : par[d] < d}
    /\ gitDirs \in SUBSET Dirs
    /\ findPath \in {-1} \cup Dirs
    /\ filters \in FindFilters
    /\ walkQueue = <<>>
    /\ foundRepos = <<>>
    /\ findRet = <<>>
    /\ findPc = "start"

NextFind ==
    \/ FindStart
    \/ FindWalk
    \/ FindWalkEnd
    \/ FindFilter

SpecFind == InitFind /\ [][NextFind]_vars

(***************************************************************************)
(* FilterRepositories on its own, on any short list of repositories.       *)
(***************************************************************************)
Identities ==
    [Host : {"", "github.com", "github.com.evil"}, Organization : {"org", "org2"},
     Name : {"repo", "repo-old"}, Path : {<<>>}]

Lists == UNION {[1..n -> Identities] : n \in 0..MaxList}

FilterCall ==
    /\ findPc = "filter"
    /\ findRet' = FilterRepositories(foundRepos, filters.host, filters.org, filters.repo)
    /\ findPc' = "done"
    /\ UNCHANGED <<frameFind, walkQueue, foundRepos>>

InitFilter ==
    /\ IdleRepo
    /\ FanIdle
    /\ StatIdle
    /\ CloneIdle
    /\ parentDir = <<>>
    /\ gitDirs = {}
    /\ findPath = -1
    /\ filters \in [host : {"", "github.com"}, org : {"", "org"}, repo : {"", "repo"}]
    /\ walkQueue = <<>>
    /\ foundRepos \in Lists
    /\ findRet = <<>>
    /\ findPc = "filter"

NextFilter == FilterCall

SpecFilter == InitFilter /\ [][NextFilter]_vars

(***************************************************************************)
(* ParseURL, Clone and the discovery of the cloned path.  A URL is the     *)
(* text of its scheme, its host and its path segments, an empty segment    *)
(* being two separators in a row.                                          *)
(***************************************************************************)
\* strings.Split(text, sep): the texts between the separators.
RECURSIVE Split(_, _)
Split(text, sep) ==
    LET i == Index(text, sep)
    IN IF i = 0 THEN <<text>>
       ELSE <<SubSeq(text, 1, i - 1)>> \o Split(SubSeq(text, i + 1, Len(text)), sep)

TrimSuffix(text, suffix) ==
    IF Len(text) >= Len(suffix)
         /\ SubSeq(text, Len(text) - Len(suffix) + 1, Len(text)) = suffix
      THEN SubSeq(text, 1, Len(text) - Len(suffix)) ELSE text

\* An organization taken from the last segment before the name.
SshOrganizationBeforeName(pathParts) == Join(pathParts[Len(pathParts) - 1])

\* ParseURL, SSH form: the organization is the first segment of the path.
SshOrganization(pathParts) == Join(pathParts[1])

\* ParseURL: the Repository, or nil with an error.
ParseURL(text) ==
    LET u == TrimSuffix(text, <<".git">>)
        parts == Split(u, ":")
        pathParts == Split(parts[2], "/")
        noProtocol == TrimPrefix(TrimPrefix(u, <<"https://">>), <<"http://">>)
        httpParts == Split(noProtocol, "/")
    IN IF HasPrefix(u, <<"git@">>)
         THEN IF Len(parts) # 2 THEN [nil |-> TRUE, err |-> "invalid SSH git URL format"]
              ELSE IF Len(pathParts) < 2
                THEN [nil |-> TRUE, err |-> "invalid repository path in SSH URL"]
              ELSE [nil |-> FALSE, err |-> "",
                    Host |-> Join(TrimPrefix(parts[1], <<"git@">>)),
                    Organization |-> SshOrganization(pathParts),
                    Name |-> Join(pathParts[Len(pathParts)])]
       ELSE IF HasPrefix(u, <<"https://">>) \/ HasPrefix(u, <<"http://">>)
         THEN IF Len(httpParts) < 3
                THEN [nil |-> TRUE, err |-> "invalid HTTPS git URL format"]
              ELSE [nil |-> FALSE, err |-> "",
                    Host |-> Join(httpParts[1]),
                    Organization |-> Join(httpParts[2]),
                    Name |-> Join(httpParts[Len(httpParts)])]
       ELSE [nil |-> TRUE, err |-> "unsupported git URL format"]

\* filepath.Join(rootDir, elems...): the empty elements are left out.
JoinPath(root, elems) == root \o SelectSeq(elems, LAMBDA e : e # "")

\* The URLs: a scheme, a host, up to MaxSegs path segments and ".git" or not.
Schemes == {"git@", "https://", "http://", "ssh://"}

Hosts == {"github.com", "localhost"}

SegWords == {"a", "b", ""}

RECURSIVE PathText(_)
PathText(segs) ==
    IF segs = <<>> THEN <<>>
    ELSE (IF Head(segs) = "" THEN <<>> ELSE <<Head(segs)>>)
         \o (IF Len(segs) > 1 THEN <<"/">> \o PathText(Tail(segs)) ELSE <<>>)

UrlText(scheme, host, segs, dotGit) ==
    <<scheme, host>>
        \o (IF segs = <<>> THEN <<>>
            ELSE <<IF scheme = "git@" THEN ":" ELSE "/">> \o PathText(segs))
        \o (IF dotGit THEN <<".git">> ELSE <<>>)

Urls ==
    {[scheme |-> sc, host |-> h, segs |-> sg, text |-> UrlText(sc, h, sg, g)] :
        sc \in Schemes, h \in Hosts,
        sg \in UNION {[1..n -> SegWords] : n \in 0..MaxSegs}, g \in BOOLEAN}

frameClone == <<repoVars, pruneVars, updVars, pcmdVars, fanVars, statVars, findVars,
                cloneUrl, cloneRoot>>

\* The clone command: ParseURL(url).
CloneParse ==
    /\ clonePc = "start"
    /\ LET r == ParseURL(cloneUrl.text)
       IN IF r.nil
            THEN /\ clonePc' = r.err
                 /\ UNCHANGED cloneRepo
            ELSE /\ cloneRepo' = [NewRepository EXCEPT !.Host = r.Host,
                                     !.Organization = r.Organization, !.Name = r.Name]
                 /\ clonePc' = "parsed"
    /\ UNCHANGED <<frameClone, discovered>>

\* Clone: the assignment of r.Path, then MkdirAll, the test for an existing
\* repository and the clone command, each of which can fail.
Clone ==
    /\ clonePc = "parsed"
    /\ \E outcome \in {"failed to create directories", "repository already exists",
                       "clone failed", ""} :
         /\ cloneRepo' = [cloneRepo EXCEPT !.Path =
               JoinPath(cloneRoot, <<cloneRepo.Host, cloneRepo.Organization,
                                     cloneRepo.Name>>)]
         /\ clonePc' = IF outcome = "" THEN "cloned" ELSE outcome
    /\ UNCHANGED <<frameClone, discovered>>

\* A later discovery of the cloned working tree: CreateRepositoryFromPath.
CloneDiscover ==
    /\ clonePc = "cloned"
    /\ discovered' = CreateRepositoryFromPath(cloneRepo.Path)
    /\ clonePc' = "discovered"
    /\ UNCHANGED <<frameClone, cloneRepo>>

InitClone ==
    /\ IdleRepo
    /\ FanIdle
    /\ StatIdle
    /\ FindIdle
    /\ cloneUrl \in Urls
    /\ cloneRoot \in {<<RootName>>, <<RootName, "src">>}
    /\ cloneRepo = NewRepository
    /\ clonePc = "start"
    /\ discovered = NewRepository

NextClone ==
    \/ CloneParse
    \/ Clone
    \/ CloneDiscover

SpecClone == InitClone /\ [][NextClone]_vars

(***************************************************************************)
(* Properties of PruneBranches (SpecPrune).                                *)
(***************************************************************************)
IssuedNames(c) == {c.issued[i].branch : i \in 1..Len(c.issued)}

Identified(c) == c.err \in {"", "running", "delete"}

PreviewedCall ==
    /\ preview.dryRun /\ preview.err = ""
    /\ ~call.dryRun /\ call.err \in {"", "delete"}
    /\ preview.repo = call.repo
    /\ preview.mergeFail = call.mergeFail

\* C4 as stated: a dry run issues no branch -D command and returns the set of
\* branches that a call with dryRun = false attempts to delete.
C4_DryRunListIsAttempted ==
    /\ call.dryRun => call.issued = <<>>
    /\ PreviewedCall => Range(preview.list) = IssuedNames(call)

\* C4 amended: a dry run issues no branch -D command and returns the set of
\* branches that the call with dryRun = false returns; that call attempts to
\* delete all of them when no deletion fails, and otherwise only those up to the
\* first deletion that fails.
C4_DryRunPreviewsDeletion ==
    /\ call.dryRun => call.issued = <<>>
    /\ PreviewedCall =>
         /\ Range(preview.list) = Range(call.list)
         /\ IssuedNames(call) \subseteq Range(preview.list)
         /\ call.err = "" => IssuedNames(call) = Range(preview.list)
         /\ call.err = "delete" =>
              /\ ~call.issued[Len(call.issued)].ok
              /\ \A i \in 1..(Len(call.issued) - 1) : call.issued[i].ok

\* C4 witness: a dry run listed two branches and the deleting call that followed
\* deleted both.
C4_Witness ==
    /\ PreviewedCall
    /\ call.err = ""
    /\ Len(preview.list) = 2
    /\ Len(call.issued) = 2

(***************************************************************************)
(* Properties of Update (SpecUpdate).                                      *)
(***************************************************************************)
Issued(c) == {i \in 1..Len(gitLog) : gitLog[i].cmd = c}

Returned == updPc = "done"

\* Status() ran to its end: its last command, stash list, succeeded.
StatusDerived == \E i \in Issued("stash") : gitLog[i].ok

\* C5: when the status derived after the fetch reports uncommitted changes,
\* Update returns an error and issues no checkout and no pull, whatever
\* fetchOnly is.
C5_DirtyTreeIsRefused ==
    (StatusDerived /\ dirty) =>
        /\ Issued("checkout") = {} /\ Issued("pull") = {}
        /\ Returned
        /\ updRet.err # "" /\ updRet.isNil

\* C5 witness: Update returned on a dirty tree that has a branch behind its
\* upstream which is not the checked-out one, with fetchOnly false.
C5_Witness ==
    /\ Returned /\ StatusDerived /\ dirty /\ ~fetchOnly
    /\ \E n \in Names \ {head} : branches[n].track = "live" /\ branches[n].behind > 0

\* The second `git branch -vv` of Update succeeded: the branch loop is entered.
ReachedBranches ==
    \E i \in Issued("branch") : gitLog[i].arg = "-vv" /\ gitLog[i].ok

\* C6: a non-fetch-only Update that reached the branch loop has, when it
\* returns, issued as its last git command a checkout of the branch that was
\* checked out when it started, whichever checkouts and pulls failed.
C6_RestoresOriginalBranch ==
    (Returned /\ ~fetchOnly /\ ReachedBranches) =>
        LET last == gitLog[Len(gitLog)]
        IN last.cmd = "checkout" /\ last.arg = headAtStart

\* C6 witness: Update returned after a per-branch checkout failed and a
\* per-branch pull failed.
C6_Witness ==
    /\ Returned /\ ~fetchOnly /\ ReachedBranches
    /\ \E i \in Issued("pull") : ~gitLog[i].ok
    /\ \E i \in Issued("checkout") : ~gitLog[i].ok /\ gitLog[i].arg # headAtStart

\* C10: Update with fetchOnly issues no checkout and no pull, the restoring
\* checkout included, and the result it returns has no per-branch results.
C10_FetchOnlyTouchesNoBranch ==
    fetchOnly =>
        /\ Issued("checkout") = {} /\ Issued("pull") = {}
        /\ Returned => updRet.results = NoResults /\ ~updRet.HasErrors

\* C10 witness: a fetch-only Update returned without error on a tree with a
\* branch behind its upstream.
C10_Witness ==
    /\ Returned /\ fetchOnly /\ updRet.err = "" /\ ~updRet.isNil
    /\ \E n \in Names : branches[n].track = "live" /\ branches[n].behind > 0


(***************************************************************************)
(* Properties of the prune command (SpecPruneCmd).                         *)
(***************************************************************************)
PruneCalled == call.err # "none"

\* C2: run with neither --dry-run nor --no-dry-run, the prune command calls
\* PruneBranches with dryRun = true and issues no branch -D command.
C2_DefaultIsDryRun ==
    (argv = <<>> /\ PruneCalled) => call.dryRun /\ call.issued = <<>>

\* C3: run with --no-dry-run, the prune command calls PruneBranches with
\* dryRun = false, so that the qualifying branches are deleted.
C3_NoDryRunDeletes ==
    (argv = <<[flag |-> "no-dry-run", val |-> ""]>> /\ PruneCalled /\ pcmdPc = "done") =>
        /\ ~call.dryRun
        /\ call.list # <<>> => call.issued # <<>>

(***************************************************************************)
(* Properties of the update command (SpecUpdateCmd).                       *)
(***************************************************************************)
Ascending(seq) == \A i, j \in 1..Len(seq) : i < j => seq[i] < seq[j]

\* C7: in the update command a repository whose Update fails neither aborts
\* nor crashes the invocation: RunE is never brought down by a panic, and when
\* it has returned every repository that has a result has been rendered.
C7_UpdateFailureIsIsolated ==
    variant = "update" =>
        /\ mainPc # "panic"
        /\ mainPc = "done" => Range(rendered) = {c.path : c \in collected}

\* A failing repository has brought RunE down while the result of another
\* repository was collected and never rendered.
C7_Witness ==
    /\ variant = "update"
    /\ mainPc = "panic"
    /\ collected # {}
    /\ rendered = <<>>

\* C9: the update command renders the results in the order of the repository
\* list, whatever the order in which the goroutines sent them: the rendered
\* repositories always ascend in the list, and they are the whole list when
\* RunE returns.
C9_RenderedInListOrder ==
    variant = "update" =>
        /\ Ascending(rendered)
        /\ mainPc = "done" => rendered = repositories

\* RunE has returned after receiving the results in another order than the
\* order of the list.
C9_Witness ==
    /\ variant = "update"
    /\ mainPc = "done"
    /\ Len(received) = NumRepos
    /\ ~Ascending(received)
    /\ rendered = repositories

(***************************************************************************)
(* Properties of the status command (SpecStatusCmd).                       *)
(***************************************************************************)
\* C8: in the status command a repository whose Status fails gets a warning
\* and neither aborts nor crashes the invocation: RunE is never brought down
\* by a panic.
C8_StatusFailureIsIsolated ==
    variant \in {"wg", "chan"} => mainPc # "panic"

\* The goroutine variant has crashed on the nil status after its warning,
\* with the status of another repository still to be produced.
C8_Witness ==
    /\ variant = "wg"
    /\ mainPc = "panic"
    /\ warnings # {}
    /\ \E r \in Repos : workerPc[r] = "start" /\ r \notin warnings

\* The channel variant has crashed on the nil status while collecting, before
\* anything was rendered.
C8_WitnessChan ==
    /\ variant = "chan"
    /\ mainPc = "panic"
    /\ rendered = <<>>

\* Default command line of the prune command: a branch has been deleted.
C2_Witness ==
    /\ argv = <<>>
    /\ PruneCalled
    /\ \E i \in 1..Len(call.issued) : call.issued[i].ok

\* --no-dry-run given: the command has finished having identified branches
\* and deleted none.
C3_Witness ==
    /\ argv = <<[flag |-> "no-dry-run", val |-> ""]>>
    /\ pcmdPc = "done"
    /\ call.dryRun
    /\ call.list # <<>>
    /\ call.issued = <<>>

\* C11: when the update command is given --fetch-only, every call of Update
\* made by its goroutines carries fetchOnly = true.
C11_FetchOnlyFlagIsPassed ==
    (variant = "update" /\ flagFetchOnly) =>
        \A r \in Repos : updateArgs[r] # <<>> => updateArgs[r][1]

\* --fetch-only given: a goroutine has called Update with fetchOnly = false
\* and sent the result of a full update.
C11_Witness ==
    /\ variant = "update"
    /\ flagFetchOnly
    /\ \E r \in Repos :
         /\ updateArgs[r] = <<FALSE, FALSE>>
         /\ \E i \in 1..Len(resultChan) : resultChan[i].path = r /\ ~resultChan[i].isNil

(***************************************************************************)
(* Properties of Status (SpecStatus).                                      *)
(***************************************************************************)
\* C12: the three flags of a status are the OR, over its Branches list, of
\* NoRemoteTracking, RemoteGone and Behind > 0, whatever the order in which
\* the parsing goroutines took the mutex.
C12_FlagsAreOrOfBranches ==
    LET B == status.Branches
    IN /\ status.HasBranchesWithoutRemote = (\E i \in 1..Len(B) : B[i].NoRemoteTracking)
       /\ status.HasBranchesWithRemoteGone = (\E i \in 1..Len(B) : B[i].RemoteGone)
       /\ status.HasBranchesBehindRemote = (\E i \in 1..Len(B) : B[i].Behind > 0)

\* A status of three branches was returned with one flag set by the branch
\* appended last and another flag left unset, a branch level with its
\* upstream among them.
C12_Witness ==
    /\ statPc = "done"
    /\ Len(status.Branches) = 3
    /\ status.Branches[3].RemoteGone
    /\ ~status.HasBranchesBehindRemote
    /\ status.HasBranchesWithRemoteGone
    /\ \E i \in 1..2 : status.Branches[i].RemoteTracking # ""

LiveTracking(b) == b.RemoteTracking # "" /\ ~b.RemoteGone /\ ~b.NoRemoteTracking

\* C13: every BranchInfo produced by parseBranchInfo is in exactly one of the
\* three tracking states: live tracking, no remote tracking, remote gone.
C13_ExactlyOneTrackingState ==
    \A i \in 1..Len(status.Branches) :
        LET b == status.Branches[i]
        IN /\ LiveTracking(b) \/ b.NoRemoteTracking \/ b.RemoteGone
           /\ ~(LiveTracking(b) /\ b.NoRemoteTracking)
           /\ ~(LiveTracking(b) /\ b.RemoteGone)
           /\ ~(b.NoRemoteTracking /\ b.RemoteGone)

\* A branch without upstream whose commit subject holds "[" before "]" with
\* nothing between them was parsed into none of the three states.
C13_Witness ==
    /\ Len(outLines) = 1
    /\ Index(outLines[1], "origin/feat") = 0
    /\ Len(status.Branches) = 1
    /\ LET b == status.Branches[1]
       IN ~LiveTracking(b) /\ ~b.NoRemoteTracking /\ ~b.RemoteGone

\* C14: the Branches list of a returned status follows the order of the lines
\* of the listing.
C14_BranchesInListingOrder ==
    statPc = "done" => status.Branches = ParseLines(outLines)

\* A status was returned whose Branches list holds the branches of the listing
\* in another order.
C14_Witness ==
    /\ statPc = "done"
    /\ Range(status.Branches) = Range(ParseLines(outLines))
    /\ status.Branches # ParseLines(outLines)

(***************************************************************************)
(* Further properties of PruneBranches (SpecPrune).                        *)
(***************************************************************************)
\* The branches of the tree a call started from that meet the criteria: not
\* current, not default, and with a gone upstream when goneOnly is set or in
\* the listing of `branch --merged` when mergedOnly is set; a listing whose
\* command failed holds no name.
Qualifying(c) ==
    {n \in Present(c.repo) :
        /\ n # head
        /\ n # defaultBranch
        /\ \/ goneOnly /\ c.repo[n].track = "gone"
           \/ mergedOnly /\ n \in (IF n \in c.mergeFail THEN {} ELSE MergedListing(c.repo))}

C16_FirstFailureEndsDeletion ==
    /\ \A i \in 1..(Len(call.issued) - 1) : call.issued[i].ok
    /\ (call.issued # <<>> /\ ~call.issued[Len(call.issued)].ok) =>
          /\ call.err = "delete"
          /\ prunePc = "idle"
          /\ ~call.dryRun

\* The first of two deletions failed and the call returned with the second
\* branch never deleted.
C16_Witness ==
    /\ Len(call.list) = 2
    /\ Len(call.issued) = 1
    /\ ~call.issued[1].ok
    /\ call.err = "delete"
    /\ call.list[2] \in Present(branches)

(***************************************************************************)
(* Further properties of the prune command (SpecPruneCmd).                 *)
(***************************************************************************)
Removed(c) == {c.issued[i].branch : i \in {j \in 1..Len(c.issued) : c.issued[j].ok}}

\* C17: once a prune command that deletes has stored the PruneResult of the
\* repository, its PrunedBranches list holds exactly the branches that were
\* removed.
C17_PrunedBranchesAreTheRemoved ==
    (pcmdPc \in {"render", "done"} /\ PruneCalled /\ ~call.dryRun) =>
        Range(pruneResult.PrunedBranches) = Removed(call)

\* The second deletion failed after the first had removed its branch, and the
\* PruneResult carries the error with an empty PrunedBranches list.
C17_Witness ==
    /\ pcmdPc = "done"
    /\ ~call.dryRun
    /\ pruneResult.Error = "delete"
    /\ pruneResult.PrunedBranches = <<>>
    /\ Removed(call) # {}

(***************************************************************************)
(* Further properties of Update (SpecUpdate).                              *)
(***************************************************************************)
\* The restoring checkout was issued and failed.
RestoreFailed ==
    /\ Returned /\ ~updRet.isNil /\ ~fetchOnly
    /\ gitLog # <<>>
    /\ gitLog[Len(gitLog)].cmd = "checkout"
    /\ gitLog[Len(gitLog)].arg = originalBranch
    /\ ~gitLog[Len(gitLog)].ok

\* C18: in the UpdateResult Update returns, HasErrors is true exactly when a
\* per-branch result carries an error or the restoring checkout failed; a
\* failed restore returns an error together with the per-branch results.
C18_HasErrorsIsOrOfErrors ==
    (Returned /\ ~updRet.isNil) =>
        /\ updRet.HasErrors =
              ((\E n \in Names : updRet.results[n] \in {"checkout", "pull"}) \/ RestoreFailed)
        /\ RestoreFailed => updRet.err = "restore" /\ updRet.results = results
        /\ ~RestoreFailed => updRet.err = ""

\* Update returned HasErrors for a checkout that failed on one branch although
\* the pull of a later branch and the restore succeeded.
C18_Witness ==
    /\ Returned /\ ~updRet.isNil /\ updRet.HasErrors /\ updRet.err = ""
    /\ \E a, b \in Names : updRet.results[a] = "checkout" /\ updRet.results[b] = "nil"
    /\ \E i \in 1..Len(gitLog) : gitLog[i].cmd = "pull" /\ gitLog[i].ok
    /\ \E i, j \in 1..Len(gitLog) :
         i < j /\ gitLog[i].cmd = "checkout" /\ ~gitLog[i].ok /\ gitLog[j].cmd = "pull"

(***************************************************************************)
(* Properties of repository discovery (SpecFind) and of the filter         *)
(* (SpecFilter).                                                           *)
(***************************************************************************)
\* Path p lies inside path q.
Inside(p, q) == Len(p) > Len(q) /\ SubSeq(p, 1, Len(q)) = q

NoneNested(repos) ==
    \A i, j \in 1..Len(repos) : ~Inside(repos[i].Path, repos[j].Path)

\* C19: no repository found by FindRepositories, and none it returns, has a
\* path inside the path of another one, with and without a path argument.
C19_NoNestedRepositories ==
    NoneNested(foundRepos) /\ NoneNested(findRet)

\* FindRepositories returned two repositories from a root in which a third
\* working tree lies inside one of them.
C19_Witness ==
    /\ findPc = "done"
    /\ Len(findRet) = 2
    /\ \E d \in gitDirs, c \in gitDirs \ {0} :
         /\ parentDir[c] = d
         /\ \E i \in 1..Len(findRet) : findRet[i].Path = PathOf(parentDir, d)
         /\ \A i \in 1..Len(findRet) : findRet[i].Path # PathOf(parentDir, c)

\* Repository r equals every filter that is not empty.
Matches(r) ==
    /\ filters.host = "" \/ r.Host = filters.host
    /\ filters.org = "" \/ r.Organization = filters.org
    /\ filters.repo = "" \/ r.Name = filters.repo

\* The places of the input list that hold a matching repository.
Kept == {i \in 1..Len(foundRepos) : Matches(foundRepos[i])}

\* The k-th of those places.
KeptAt(k) == CHOOSE i \in Kept : Cardinality({j \in Kept : j <= i}) = k

\* C20: FilterRepositories with the three filters empty returns its input;
\* otherwise it returns, in the order of the input, exactly the repositories
\* that equal every non-empty filter.
C20_FilterKeepsExactMatches ==
    findPc = "done" =>
        /\ filters = NoFilters => findRet = foundRepos
        /\ Len(findRet) = Cardinality(Kept)
        /\ \A k \in 1..Len(findRet) : findRet[k] = foundRepos[KeptAt(k)]

\* A filter on host and organization kept the second of two repositories and
\* dropped the first, whose host only begins with the filter.
C20_Witness ==
    /\ findPc = "done"
    /\ filters.host = "github.com" /\ filters.org = "org"
    /\ Len(foundRepos) = 2
    /\ foundRepos[1].Host = "github.com.evil"
    /\ findRet = <<foundRepos[2]>>

(***************************************************************************)
(* Properties of ParseURL and Clone (SpecClone).                           *)
(***************************************************************************)
\* C21: for a repository with a host, an organization and a name that Clone
\* placed at rootDir/host/organization/name, CreateRepositoryFromPath on that
\* path gives back the same host, organization and name.
C21_DiscoveryGivesBackIdentity ==
    (/\ clonePc = "discovered"
     /\ cloneRepo.Host # "" /\ cloneRepo.Organization # "" /\ cloneRepo.Name # "") =>
        /\ discovered.Host = cloneRepo.Host
        /\ discovered.Organization = cloneRepo.Organization
        /\ discovered.Name = cloneRepo.Name

\* A repository of the host localhost was cloned to
\* rootDir/localhost/organization/name and discovered without host and
\* organization.
C21_Witness ==
    /\ clonePc = "discovered"
    /\ cloneRepo.Host = "localhost" /\ cloneRepo.Organization # "" /\ cloneRepo.Name # ""
    /\ cloneRepo.Path = cloneRoot \o <<"localhost", cloneRepo.Organization, cloneRepo.Name>>
    /\ discovered.Host = "" /\ discovered.Organization = ""
    /\ discovered.Name = cloneRepo.Name

\* An SSH URL whose path has more than two segments, none of them empty, has
\* been parsed.
ParsedLongSsh ==
    /\ clonePc = "parsed"
    /\ cloneUrl.scheme = "git@"
    /\ Len(cloneUrl.segs) > 2
    /\ \A i \in 1..Len(cloneUrl.segs) : cloneUrl.segs[i] # ""

\* C22 as stated: for an SSH URL with more than two path segments ParseURL
\* returns the last segment before the name as the organization.
C22_OrganizationIsLastBeforeName ==
    ParsedLongSsh => cloneRepo.Organization = cloneUrl.segs[Len(cloneUrl.segs) - 1]

\* C22 amended: for an SSH URL with more than two path segments ParseURL
\* returns the first segment as the organization and the last as the name,
\* whatever the segments between them are.
C22_OrganizationIsFirstSegment ==
    ParsedLongSsh =>
        /\ cloneRepo.Organization = cloneUrl.segs[1]
        /\ cloneRepo.Name = cloneUrl.segs[Len(cloneUrl.segs)]
        /\ cloneRepo.Host = cloneUrl.host

\* git@host:a/b/a was parsed: the organization is a, not b.
C22_Witness ==
    /\ ParsedLongSsh
    /\ cloneUrl.segs = <<"a", "b", "a">>
    /\ cloneRepo.Organization = "a"

\* C23: when Clone fails, the Path of the repository is what it was before
\* the call.
C23_FailedCloneKeepsPath ==
    clonePc \in {"failed to create directories", "repository already exists",
                 "clone failed"} => cloneRepo.Path = <<>>

\* Clone failed because the repository already exists, and the Path of the
\* repository names that place.
C23_Witness ==
    /\ clonePc = "repository already exists"
    /\ cloneRepo.Path = cloneRoot \o <<cloneRepo.Host, cloneRepo.Organization, cloneRepo.Name>>
    /\ cloneRepo.Name # ""

C30_FailedMergeListingSelectsNothing ==
    (call.err # "none" /\ call.mergeFail # {}) =>
        /\ mergedOnly
        /\ \A n \in call.mergeFail :
             n \in Range(call.list) \cup IssuedNames(call) =>
                goneOnly /\ call.repo[n].track = "gone"
        /\ call.err \in {"", "running", "delete"}
        /\ call.err = "delete" => ~call.issued[Len(call.issued)].ok

\* A deleting call with mergedOnly alone returned without error and without
\* any deletion for a merged branch whose listing command failed, while it
\* deleted another merged branch.
C30_Witness ==
    /\ call.err = "" /\ ~call.dryRun /\ mergedOnly /\ ~goneOnly
    /\ \E n \in call.mergeFail : call.repo[n].merged /\ n \in Present(branches)
    /\ call.issued # <<>>

(***************************************************************************)
(* Properties of the branch loop of Update (SpecUpdate).                   *)
(***************************************************************************)
\* C25: every pull Update issues and records for a branch is issued while
\* that branch is checked out.
C25_PullsTheCheckedOutBranch ==
    \A i \in Issued("pull") : gitLog[i].on = gitLog[i].arg

\* The pull recorded for the original branch was issued while the branch
\* checked out for an earlier line was still checked out.
C25_Witness ==
    \E i \in Issued("pull") :
        /\ gitLog[i].arg = originalBranch
        /\ gitLog[i].on # originalBranch
        /\ \E j \in 1..(i - 1) : gitLog[j].cmd = "checkout" /\ gitLog[j].ok
                                   /\ gitLog[j].arg = gitLog[i].on

\* The pulls that failed after Update had checked out their branch.
FailedPullsAfterCheckout ==
    {i \in Issued("pull") :
        /\ ~gitLog[i].ok
        /\ i > 1
        /\ gitLog[i - 1].cmd = "checkout" /\ gitLog[i - 1].arg = gitLog[i].arg}

\* C26: after a pull that failed for a branch Update had checked out, the
\* next command is a checkout of the branch that was checked out before.
C26_FailedPullRestoresBranch ==
    \A i \in FailedPullsAfterCheckout :
        i < Len(gitLog) =>
            /\ gitLog[i + 1].cmd = "checkout"
            /\ gitLog[i + 1].arg = gitLog[i - 1].on

\* After the failed pull of a branch it had checked out, Update went on to
\* check out the next branch.
C26_Witness ==
    \E i \in FailedPullsAfterCheckout :
        /\ i < Len(gitLog)
        /\ gitLog[i + 1].cmd = "checkout"
        /\ gitLog[i + 1].arg \notin {gitLog[i - 1].on, originalBranch}

\* C27: in the branch loop a checkout or a pull is issued only for a branch
\* with a live upstream that is behind it, and a branch with a live upstream
\* that is not behind gets a nil result without any command.
C27_CommandsOnlyForBehindBranches ==
    [][(updPc = "branches" /\ updIdx' = updIdx + 1) =>
         /\ \A i \in (Len(gitLog) + 1)..Len(gitLog') :
              /\ branches[gitLog'[i].arg].track = "live"
              /\ branches[gitLog'[i].arg].behind >= 1
         /\ \A n \in Names :
              (results[n] # results'[n] /\ branches[n].behind = 0) =>
                 /\ branches[n].track = "live"
                 /\ results'[n] = "nil"
                 /\ gitLog' = gitLog]_vars

\* Update returned after recording a nil result without a command for a
\* branch level with its upstream, and after a pull for a branch behind it,
\* with branches without upstream and with a gone upstream left alone.
C27_Witness ==
    /\ Returned /\ ~updRet.isNil
    /\ Cardinality(Issued("pull")) = 1
    /\ \E n \in Names :
         /\ updRet.results[n] = "nil"
         /\ \A i \in Issued("pull") \cup Issued("checkout") : gitLog[i].arg # n
         /\ n # originalBranch
    /\ \E n \in Names : branches[n].present /\ branches[n].track # "live"
                          /\ updRet.results[n] = "absent"

(***************************************************************************)
(* Further properties of Status (SpecStatus) and of the update command     *)
(* (SpecUpdateCmd).                                                        *)
(***************************************************************************)
Count(seq, x) == Cardinality({i \in 1..Len(seq) : seq[i] = x})

\* C28: once getBranchInformation has returned, Branches holds each branch
\* of an accepted line as often as the listing has the line, and every
\* parsing goroutine is done, so none writes to the status afterwards.
C28_OneEntryPerAcceptedLine ==
    statPc = "done" =>
        /\ Len(status.Branches) = Len(ParseLines(outLines))
        /\ \A b \in Range(ParseLines(outLines)) \cup Range(status.Branches) :
             Count(status.Branches, b) = Count(ParseLines(outLines), b)
        /\ \A i \in 1..Len(linePc) : linePc[i] = "done"

\* Status returned three branches that the goroutines appended in another
\* order than the listing.
C28_Witness ==
    /\ statPc = "done"
    /\ Len(status.Branches) = 3
    /\ status.Branches # ParseLines(outLines)

\* A send on the result channel finds room in its buffer.
SendsNeverBlock ==
    \A r \in Repos : workerPc[r] = "start" => Len(resultChan) < NumRepos

\* The result channel is closed only when every goroutine has sent.
ClosedAfterAllSends ==
    chanClosed => \A r \in Repos : workerPc[r] = "done"

\* C29: in the update command no send on the result channel blocks, the
\* channel is closed only after all sends, and the collecting loop ends only
\* after it has received one result per repository.
C29_AllResultsAreCollected ==
    variant = "update" =>
        /\ SendsNeverBlock
        /\ ClosedAfterAllSends
        /\ mainPc # "collect" => Len(received) = NumRepos

\* Every goroutine has sent its result and the channel is closed, and the
\* collecting loop has ended on a nil result with fewer results received than
\* there are repositories.
C29_Witness ==
    /\ variant = "update"
    /\ chanClosed
    /\ mainPc = "panic"
    /\ Len(received) < NumRepos

====
